---- MODULE Spec2Model ----
(***************************************************************************)
(* EnvSanityCheck: a one-shot validator of required environment variables. *)
(* Two programs live in the repository: the packaged command               *)
(* (src/cli.py, YAML specification) and the stand-alone script             *)
(* (src/envcheck.py, line-oriented specification).  The variable `variant` *)
(* says which of the two is running.                                       *)
(*                                                                         *)
(* Python strings are modelled as sequences of one-character strings, so   *)
(* that strip(), lower(), split(), int() and float() are computed, not     *)
(* assumed.                                                                *)
(***************************************************************************)
EXTENDS Integers, Sequences, FiniteSets, TLC

VARIABLES
    variant,                  \* "cli" (src/cli.py) or "envcheck" (src/envcheck.py)
    format,                   \* the --format option
    specFile,                 \* the specification file on disk
    dotenvFile,               \* the .env file on disk
    environ,                  \* os.environ
    pc,                       \* position of the run inside envsanitycheck()
    required_vars_with_types, \* ordered mapping: sequence of [key, type]
    dotenv_vars,              \* mapping parsed from .env
    all_available_vars,       \* the resolved environment
    missing_vars,
    empty_vars,
    type_errors,
    found_count,
    report_data,              \* sequence holding at most one report
    stdout,                   \* reports printed
    stderr,                   \* errors and warnings printed
    exit_code,                \* -1 while running
    accessed,                 \* sources read so far: "spec", "dotenv", "environ"
    tc_value,                 \* direct call check_value_type(key, value, expected_type)
    tc_type,
    tc_result                 \* sequence holding at most one return value

vars == <<variant, format, specFile, dotenvFile, environ, pc,
          required_vars_with_types, dotenv_vars, all_available_vars,
          missing_vars, empty_vars, type_errors, found_count, report_data,
          stdout, stderr, exit_code, accessed, tc_value, tc_type, tc_result>>

runVars == <<variant, format, specFile, dotenvFile, environ, pc,
             required_vars_with_types, dotenv_vars, all_available_vars,
             missing_vars, empty_vars, type_errors, found_count, report_data,
             stdout, stderr, exit_code, accessed>>

----------------------------------------------------------------------------
(* Python str primitives on sequences of characters *)

Whitespace == {" ", "\t", "\n", "\r"}

Digits == {"0", "1", "2", "3", "4", "5", "6", "7", "8", "9"}

UpperCase == <<"A", "B", "C", "D", "E", "F", "G", "H", "I", "J", "K", "L", "M",
               "N", "O", "P", "Q", "R", "S", "T", "U", "V", "W", "X", "Y", "Z">>

LowerCase == <<"a", "b", "c", "d", "e", "f", "g", "h", "i", "j", "k", "l", "m",
               "n", "o", "p", "q", "r", "s", "t", "u", "v", "w", "x", "y", "z">>

LowerChar(c) ==
    IF \E i \in DOMAIN UpperCase : UpperCase[i] = c
    THEN LowerCase[CHOOSE i \in DOMAIN UpperCase : UpperCase[i] = c]
    ELSE c

\* str.lower()
Lower(s) == [i \in DOMAIN s |-> LowerChar(s[i])]

\* c in s
Contains(s, c) == \E i \in DOMAIN s : s[i] = c

\* s.startswith(c) for a one-character prefix
StartsWith(s, c) == Len(s) > 0 /\ s[1] = c

RECURSIVE LStripChars(_, _)
LStripChars(s, cs) ==
    IF Len(s) > 0 /\ s[1] \in cs THEN LStripChars(Tail(s), cs) ELSE s

RECURSIVE RStripChars(_, _)
RStripChars(s, cs) ==
    IF Len(s) > 0 /\ s[Len(s)] \in cs
    THEN RStripChars(SubSeq(s, 1, Len(s) - 1), cs)
    ELSE s

\* str.strip(chars): every leading and trailing character in cs is removed
StripChars(s, cs) == RStripChars(LStripChars(s, cs), cs)

\* str.strip()
Strip(s) == StripChars(s, Whitespace)

\* index of the first occurrence of c in s (c occurs in s)
IndexOf(s, c) == CHOOSE i \in DOMAIN s : s[i] = c /\ \A j \in 1..(i - 1) : s[j] # c

\* s.split(c, 1) when c occurs in s: <<head, tail>>
Split1(s, c) ==
    LET i == IndexOf(s, c)
    IN  <<SubSeq(s, 1, i - 1), SubSeq(s, i + 1, Len(s))>>

\* digits, single underscores allowed between digits
IsDigitPart(s) ==
    /\ Len(s) > 0
    /\ s[1] \in Digits
    /\ s[Len(s)] \in Digits
    /\ \A i \in DOMAIN s : s[i] \in Digits \cup {"_"}
    /\ \A i \in 1..(Len(s) - 1) : ~(s[i] = "_" /\ s[i + 1] = "_")

Unsigned(s) == IF Len(s) > 0 /\ s[1] \in {"+", "-"} THEN Tail(s) ELSE s

\* int(value) does not raise ValueError
PyIntParses(value) == IsDigitPart(Unsigned(Strip(value)))

IsMantissa(m) ==
    \/ IsDigitPart(m)
    \/ \E i \in DOMAIN m :
          /\ m[i] = "."
          /\ LET a == SubSeq(m, 1, i - 1)
                 b == SubSeq(m, i + 1, Len(m))
             IN  /\ a = <<>> \/ IsDigitPart(a)
                 /\ b = <<>> \/ IsDigitPart(b)
                 /\ a # <<>> \/ b # <<>>

IsDecimal(u) ==
    \/ IsMantissa(u)
    \/ \E i \in DOMAIN u :
          /\ u[i] \in {"e", "E"}
          /\ IsMantissa(SubSeq(u, 1, i - 1))
          /\ IsDigitPart(Unsigned(SubSeq(u, i + 1, Len(u))))

FloatWords == {<<"i", "n", "f">>, <<"n", "a", "n">>,
               <<"i", "n", "f", "i", "n", "i", "t", "y">>}

\* float(value) does not raise ValueError
PyFloatParses(value) ==
    LET u == Unsigned(Strip(value))
    IN  IsDecimal(u) \/ Lower(u) \in FloatWords

----------------------------------------------------------------------------
(* Configuration *)

T_string == <<"s", "t", "r", "i", "n", "g">>
T_integer == <<"i", "n", "t", "e", "g", "e", "r">>
T_float == <<"f", "l", "o", "a", "t">>
T_boolean == <<"b", "o", "o", "l", "e", "a", "n">>

VALID_TYPES == {T_string, T_integer, T_float, T_boolean}

VALID_FORMATS == {"text", "json", "yaml"}

Variants == {"cli", "envcheck"}

----------------------------------------------------------------------------
(* check_value_type *)

\* An f-string is a sequence of pieces: literal text or a substituted value.
Lit(text) == [lit |-> text, sub |-> <<>>]
Sub(chars) == [lit |-> "", sub |-> chars]

\* message == ""
IsEmptyMessage(m) == \A i \in DOMAIN m : m[i].lit = "" /\ m[i].sub = <<>>

Accept == [is_valid |-> TRUE, message |-> <<>>]
Reject(m) == [is_valid |-> FALSE, message |-> m]

DecimalPointMessage(value) ==
    <<Lit("Value '"), Sub(value),
      Lit("' contains a decimal point. Expected strict integer.")>>

NotBooleanMessage(value) ==
    <<Lit("Value '"), Sub(value),
      Lit("' is not a valid boolean (expected true/false/1/0).")>>

CannotConvertMessage(value, expected_type) ==
    <<Lit("Value '"), Sub(value), Lit("' cannot be converted to type '"),
      Sub(expected_type), Lit("'.")>>

BooleanTokens == {<<"t", "r", "u", "e">>, <<"f", "a", "l", "s", "e">>, <<"1">>, <<"0">>}

\* src/envcheck.py: no decimal-point test before int()
envcheck_check_value_type(key, value, expected_type) ==
    IF expected_type = T_string THEN Accept
    ELSE IF expected_type = T_integer THEN
        IF PyIntParses(value) THEN Accept
        ELSE Reject(CannotConvertMessage(value, expected_type))
    ELSE IF expected_type = T_float THEN
        IF PyFloatParses(value) THEN Accept
        ELSE Reject(CannotConvertMessage(value, expected_type))
    ELSE IF expected_type = T_boolean THEN
        IF Lower(value) \in BooleanTokens THEN Accept
        ELSE Reject(NotBooleanMessage(value))
    ELSE Accept

\* Mutant: the decimal-point test is dropped, int() alone decides.
check_value_type_no_point_test(key, value, expected_type) ==
    IF expected_type = T_string THEN Accept
    ELSE IF expected_type = T_integer THEN
        IF PyIntParses(value) THEN Accept
        ELSE Reject(CannotConvertMessage(value, expected_type))
    ELSE IF expected_type = T_float THEN
        IF PyFloatParses(value) THEN Accept
        ELSE Reject(CannotConvertMessage(value, expected_type))
    ELSE IF expected_type = T_boolean THEN
        IF Lower(value) \in BooleanTokens THEN Accept
        ELSE Reject(NotBooleanMessage(value))
    ELSE Accept

\* Mutant: the boolean test forgets lower().
check_value_type_case_sensitive(key, value, expected_type) ==
    IF expected_type = T_string THEN Accept
    ELSE IF expected_type = T_integer THEN
        IF Contains(value, ".") THEN Reject(DecimalPointMessage(value))
        ELSE IF PyIntParses(value) THEN Accept
        ELSE Reject(CannotConvertMessage(value, expected_type))
    ELSE IF expected_type = T_float THEN
        IF PyFloatParses(value) THEN Accept
        ELSE Reject(CannotConvertMessage(value, expected_type))
    ELSE IF expected_type = T_boolean THEN
        IF value \in BooleanTokens THEN Accept
        ELSE Reject(NotBooleanMessage(value))
    ELSE Accept

\* Mutant: the ValueError handler returns (False, "").
check_value_type_silent_reject(key, value, expected_type) ==
    IF expected_type = T_string THEN Accept
    ELSE IF expected_type = T_integer THEN
        IF Contains(value, ".") THEN Reject(DecimalPointMessage(value))
        ELSE IF PyIntParses(value) THEN Accept
        ELSE Reject(<<>>)
    ELSE IF expected_type = T_float THEN
        IF PyFloatParses(value) THEN Accept
        ELSE Reject(<<>>)
    ELSE IF expected_type = T_boolean THEN
        IF Lower(value) \in BooleanTokens THEN Accept
        ELSE Reject(NotBooleanMessage(value))
    ELSE Accept

\* src/cli.py
check_value_type(key, value, expected_type) ==
    IF expected_type = T_string THEN Accept
    ELSE IF expected_type = T_integer THEN
        IF Contains(value, ".") THEN Reject(DecimalPointMessage(value))
        ELSE IF PyIntParses(value) THEN Accept
        ELSE Reject(CannotConvertMessage(value, expected_type))
    ELSE IF expected_type = T_float THEN
        IF PyFloatParses(value) THEN Accept
        ELSE Reject(CannotConvertMessage(value, expected_type))
    ELSE IF expected_type = T_boolean THEN
        IF Lower(value) \in BooleanTokens THEN Accept
        ELSE Reject(NotBooleanMessage(value))
    ELSE Accept

CheckValueType(v, key, value, expected_type) ==
    IF v = "cli" THEN check_value_type(key, value, expected_type)
    ELSE envcheck_check_value_type(key, value, expected_type)

----------------------------------------------------------------------------
(* Files.  A file is a sequence of lines; a line is a sequence of characters. *)
(* specFile:   [exists, readable, lines]                                    *)
(* dotenvFile: [exists, fail_at, lines]; fail_at = k > 0 means that reading *)
(* raises (OSError, UnicodeDecodeError) when line k is fetched, fail_at = 0 *)
(* that the whole file is read.                                             *)

IsContentLine(line) == Strip(line) # <<>> /\ ~StartsWith(Strip(line), "#")

ContentLines(lines) == SelectSeq(lines, IsContentLine)

\* ordered dict: d[key] = value keeps the position of an existing key
DictSet(d, key, value) ==
    IF \E i \in DOMAIN d : d[i].key = key
    THEN [i \in DOMAIN d |-> IF d[i].key = key THEN [key |-> key, type |-> value] ELSE d[i]]
    ELSE Append(d, [key |-> key, type |-> value])

\* unordered dict: d[key] = value
Put(d, key, value) == [k \in DOMAIN d \cup {key} |-> IF k = key THEN value ELSE d[k]]

(* ruamel.yaml's load(), for documents made of flush-left one-line entries:  *)
(* "key: scalar" and "key:" are mapping entries, anything else is not.       *)
(* A document of mapping entries only is a mapping; a repeated key raises    *)
(* DuplicateKeyError; an empty document is None; every other document is a  *)
(* scalar, a sequence or a syntax error.                                     *)

EndsWithColon(line) == Len(line) > 0 /\ line[Len(line)] = ":"

HasColonSpace(line) == \E i \in 1..(Len(line) - 1) : line[i] = ":" /\ line[i + 1] = " "

IsMappingEntry(line) ==
    LET t == Strip(line) IN ~StartsWith(t, "-") /\ (HasColonSpace(t) \/ EndsWithColon(t))

YamlKey(line) ==
    LET t == Strip(line)
        i == CHOOSE k \in DOMAIN t :
                 /\ t[k] = ":" /\ (k = Len(t) \/ t[k + 1] = " ")
                 /\ \A j \in 1..(k - 1) : ~(t[j] = ":" /\ t[j + 1] = " ")
    IN  Strip(SubSeq(t, 1, i - 1))

YamlScalarText(line) ==
    LET t == Strip(line)
        i == CHOOSE k \in DOMAIN t :
                 /\ t[k] = ":" /\ (k = Len(t) \/ t[k + 1] = " ")
                 /\ \A j \in 1..(k - 1) : ~(t[j] = ":" /\ t[j + 1] = " ")
    IN  Strip(SubSeq(t, i + 1, Len(t)))

YamlNulls == {<<>>, <<"~">>, <<"n", "u", "l", "l">>, <<"N", "u", "l", "l">>,
              <<"N", "U", "L", "L">>}

YamlBools == {<<"t", "r", "u", "e">>, <<"T", "r", "u", "e">>, <<"T", "R", "U", "E">>,
              <<"f", "a", "l", "s", "e">>, <<"F", "a", "l", "s", "e">>,
              <<"F", "A", "L", "S", "E">>}

\* isinstance(v, str) for the value the loader builds from a plain scalar
YamlIsStr(text) ==
    /\ text \notin YamlNulls
    /\ text \notin YamlBools
    /\ ~IsDigitPart(Unsigned(text))
    /\ ~IsDecimal(Unsigned(text))

YamlLoad(lines) ==
    LET content == ContentLines(lines)
    IN  IF content = <<>> THEN [kind |-> "none", items |-> <<>>]
        ELSE IF \E i \in DOMAIN content : ~IsMappingEntry(content[i])
        THEN [kind |-> "not_mapping", items |-> <<>>]
        ELSE IF \E i, j \in DOMAIN content :
                    i # j /\ YamlKey(content[i]) = YamlKey(content[j])
        THEN [kind |-> "error", items |-> <<>>]
        ELSE [kind |-> "mapping",
              items |-> [i \in DOMAIN content |->
                            [k |-> YamlKey(content[i]), v |-> YamlScalarText(content[i])]]]

LoadOk(d) == [ok |-> TRUE, vars |-> d, error |-> ""]
LoadFailed(why) == [ok |-> FALSE, vars |-> <<>>, error |-> why]

\* normalized_data[str(k).strip()] = v.lower().strip()
RECURSIVE Normalize(_, _)
Normalize(items, acc) ==
    IF items = <<>> THEN acc
    ELSE Normalize(Tail(items),
                   DictSet(acc, Strip(Head(items).k), Strip(Lower(Head(items).v))))

\* Mutant: the validation of the type names is left out.
load_spec_file_unvalidated_types(file) ==
    IF ~file.exists THEN LoadFailed("Error: Specification file not found")
    ELSE IF ~file.readable THEN LoadFailed("Error reading specification file")
    ELSE LET data == YamlLoad(file.lines)
         IN  IF data.kind = "error" THEN LoadFailed("Error reading specification file")
             ELSE IF data.kind # "mapping"
             THEN LoadFailed("Error reading specification file: must be a dictionary")
             ELSE IF \E i \in DOMAIN data.items : ~YamlIsStr(data.items[i].v)
             THEN LoadFailed("Error reading specification file: type must be a string")
             ELSE LoadOk(Normalize(data.items, <<>>))

\* src/cli.py load_spec_file
load_spec_file(file) ==
    IF ~file.exists THEN LoadFailed("Error: Specification file not found")
    ELSE IF ~file.readable THEN LoadFailed("Error reading specification file")
    ELSE LET data == YamlLoad(file.lines)
         IN  IF data.kind = "error" THEN LoadFailed("Error reading specification file")
             ELSE IF data.kind # "mapping"
             THEN LoadFailed("Error reading specification file: must be a dictionary")
             ELSE IF \E i \in DOMAIN data.items : ~YamlIsStr(data.items[i].v)
             THEN LoadFailed("Error reading specification file: type must be a string")
             ELSE LET normalized_data == Normalize(data.items, <<>>)
                  IN  IF \E i \in DOMAIN normalized_data :
                             normalized_data[i].type \notin VALID_TYPES
                      THEN LoadFailed("Error reading specification file: unknown type")
                      ELSE LoadOk(normalized_data)

\* the loop of src/envcheck.py load_required_variables over the lines
RECURSIVE ReadRequiredLines(_, _)
ReadRequiredLines(lines, acc) ==
    IF lines = <<>> THEN LoadOk(acc)
    ELSE LET line == Strip(Head(lines))
         IN  IF line = <<>> \/ StartsWith(line, "#")
             THEN ReadRequiredLines(Tail(lines), acc)
             ELSE LET key == IF Contains(line, ":") THEN Strip(Split1(line, ":")[1]) ELSE line
                      type_str == IF Contains(line, ":")
                                  THEN Lower(Strip(Split1(line, ":")[2]))
                                  ELSE T_string
                  IN  IF type_str \notin VALID_TYPES
                      THEN LoadFailed("ERROR: Invalid type")
                      ELSE ReadRequiredLines(Tail(lines), DictSet(acc, key, type_str))

\* src/envcheck.py load_required_variables; an unreadable file raises an
\* exception nothing catches
load_required_variables(file) ==
    IF ~file.exists THEN LoadFailed("ERROR: Specification file not found")
    ELSE IF ~file.readable THEN LoadFailed("Traceback")
    ELSE ReadRequiredLines(file.lines, <<>>)

LoadSpecification(v, file) ==
    IF v = "cli" THEN load_spec_file(file) ELSE load_required_variables(file)

\* value.strip().strip('"').strip("'")
Unquote(value) == StripChars(StripChars(Strip(value), {"\""}), {"'"})

\* the loop of load_dotenv_vars over the lines read before any failure
RECURSIVE ReadDotenvLines(_, _, _)
ReadDotenvLines(lines, acc, keep_empty_key) ==
    IF lines = <<>> THEN acc
    ELSE LET line == Strip(Head(lines))
         IN  IF line # <<>> /\ ~StartsWith(line, "#") /\ Contains(line, "=")
             THEN LET key == Strip(Split1(line, "=")[1])
                      value == Unquote(Split1(line, "=")[2])
                  IN  IF key # <<>> \/ keep_empty_key
                      THEN ReadDotenvLines(Tail(lines), Put(acc, key, value), keep_empty_key)
                      ELSE ReadDotenvLines(Tail(lines), acc, keep_empty_key)
             ELSE ReadDotenvLines(Tail(lines), acc, keep_empty_key)

LinesRead(file) ==
    IF file.fail_at = 0 THEN file.lines ELSE SubSeq(file.lines, 1, file.fail_at - 1)

\* src/cli.py load_dotenv_vars: a failure is caught, warned about, and the
\* entries stored so far are returned
load_dotenv_vars(file) ==
    IF ~file.exists THEN [raised |-> FALSE, warned |-> FALSE, vars |-> <<>>]
    ELSE [raised |-> FALSE, warned |-> file.fail_at # 0,
          vars |-> ReadDotenvLines(LinesRead(file), <<>>, FALSE)]

\* src/envcheck.py load_dotenv_vars: only FileNotFoundError is caught
envcheck_load_dotenv_vars(file) ==
    IF ~file.exists THEN [raised |-> FALSE, warned |-> FALSE, vars |-> <<>>]
    ELSE IF file.fail_at # 0 THEN [raised |-> TRUE, warned |-> FALSE, vars |-> <<>>]
    ELSE [raised |-> FALSE, warned |-> FALSE,
          vars |-> ReadDotenvLines(file.lines, <<>>, TRUE)]

\* {**dotenv_vars, **os.environ}
Merge(a, b) == [k \in DOMAIN a \cup DOMAIN b |-> IF k \in DOMAIN b THEN b[k] ELSE a[k]]

----------------------------------------------------------------------------
(* envsanitycheck: one run of the command *)

NoErrors == [missing |-> <<>>, empty |-> <<>>, type_errors |-> <<>>, found |-> 0]

TypeError(var, expected_type, value, message) ==
    [key |-> var, expected |-> expected_type, actual_value |-> value, message |-> message]

\* Mutant: an empty value is not short-circuited, it goes on to the type check.
LoopBody_checks_empty(acc, var, expected_type, available) ==
    IF var \notin DOMAIN available
    THEN [acc EXCEPT !.missing = Append(@, var)]
    ELSE LET value == available[var]
             r == check_value_type(var, value, expected_type)
         IN  IF value = <<>>
             THEN IF ~r.is_valid
                  THEN [acc EXCEPT !.empty = Append(@, var),
                                   !.type_errors =
                                       Append(@, TypeError(var, expected_type, value, r.message))]
                  ELSE [acc EXCEPT !.empty = Append(@, var)]
             ELSE IF ~r.is_valid
                  THEN [acc EXCEPT !.type_errors =
                                       Append(@, TypeError(var, expected_type, value, r.message))]
                  ELSE [acc EXCEPT !.found = @ + 1]

\* src/cli.py: the body of the loop over required_vars_with_types.items()
LoopBody(acc, var, expected_type, available) ==
    IF var \notin DOMAIN available
    THEN [acc EXCEPT !.missing = Append(@, var)]
    ELSE LET value == available[var]
         IN  IF value = <<>>
             THEN [acc EXCEPT !.empty = Append(@, var)]
             ELSE LET r == check_value_type(var, value, expected_type)
                  IN  IF ~r.is_valid
                      THEN [acc EXCEPT !.type_errors =
                                           Append(@, TypeError(var, expected_type, value, r.message))]
                      ELSE [acc EXCEPT !.found = @ + 1]

\* src/envcheck.py: found_count += 1 comes before the type check
envcheck_LoopBody(acc, var, expected_type, available) ==
    IF var \notin DOMAIN available
    THEN [acc EXCEPT !.missing = Append(@, var)]
    ELSE LET value == available[var]
         IN  IF value = <<>>
             THEN [acc EXCEPT !.empty = Append(@, var)]
             ELSE LET r == envcheck_check_value_type(var, value, expected_type)
                  IN  IF ~r.is_valid
                      THEN [acc EXCEPT !.found = @ + 1,
                                       !.type_errors =
                                           Append(@, TypeError(var, expected_type, value, r.message))]
                      ELSE [acc EXCEPT !.found = @ + 1]

RECURSIVE Loop(_, _, _, _)
Loop(v, required, available, acc) ==
    IF required = <<>> THEN acc
    ELSE Loop(v, Tail(required), available,
              IF v = "cli"
              THEN LoopBody(acc, Head(required).key, Head(required).type, available)
              ELSE envcheck_LoopBody(acc, Head(required).key, Head(required).type, available))

\* Mutant: type errors alone do not fail the run.
is_failing_ignores_type_errors(missing, empty, errors) == missing # <<>> \/ empty # <<>>

\* bool(missing_vars or empty_vars or type_errors)
is_failing(missing, empty, errors) == missing # <<>> \/ empty # <<>> \/ errors # <<>>

ReportData(required, missing, empty, errors, found) ==
    [status |-> IF is_failing(missing, empty, errors) THEN "FAILURE" ELSE "SUCCESS",
     required_count |-> Len(required),
     found_count |-> found,
     missing |-> missing,
     empty |-> empty,
     type_errors |-> errors,
     all_checks_passed |-> ~is_failing(missing, empty, errors)]

\* src/cli.py: required_vars_with_types = load_spec_file(spec)
LoadSpec ==
    /\ pc = "start" /\ variant = "cli"
    /\ accessed' = accessed \cup {"spec"}
    /\ LET r == load_spec_file(specFile)
       IN  IF r.ok
           THEN /\ required_vars_with_types' = r.vars
                /\ pc' = "spec_loaded"
                /\ UNCHANGED <<stderr, exit_code>>
           ELSE /\ stderr' = Append(stderr, r.error)
                /\ exit_code' = 1
                /\ pc' = "exited"
                /\ UNCHANGED required_vars_with_types
    /\ UNCHANGED <<variant, format, specFile, dotenvFile, environ, dotenv_vars,
                   all_available_vars, missing_vars, empty_vars, type_errors,
                   found_count, report_data, stdout, tc_value, tc_type, tc_result>>

\* src/envcheck.py: load_required_variables(spec), then return when it is empty
envcheck_LoadSpec ==
    /\ pc = "start" /\ variant = "envcheck"
    /\ accessed' = accessed \cup {"spec"}
    /\ LET r == load_required_variables(specFile)
       IN  IF ~r.ok
           THEN /\ stderr' = Append(stderr, r.error)
                /\ exit_code' = 1
                /\ pc' = "exited"
                /\ UNCHANGED required_vars_with_types
           ELSE IF r.vars = <<>>
           THEN /\ exit_code' = 0
                /\ pc' = "exited"
                /\ UNCHANGED <<required_vars_with_types, stderr>>
           ELSE /\ required_vars_with_types' = r.vars
                /\ pc' = "spec_loaded"
                /\ UNCHANGED <<stderr, exit_code>>
    /\ UNCHANGED <<variant, format, specFile, dotenvFile, environ, dotenv_vars,
                   all_available_vars, missing_vars, empty_vars, type_errors,
                   found_count, report_data, stdout, tc_value, tc_type, tc_result>>

\* src/cli.py: dotenv_vars = load_dotenv_vars(DOTENV_FILE_NAME)
LoadDotenv ==
    /\ pc = "spec_loaded" /\ variant = "cli"
    /\ accessed' = accessed \cup {"dotenv"}
    /\ LET r == load_dotenv_vars(dotenvFile)
       IN  /\ dotenv_vars' = r.vars
           /\ stderr' = IF r.warned
                        THEN Append(stderr, "Warning: Could not parse .env file")
                        ELSE stderr
    /\ pc' = "dotenv_loaded"
    /\ UNCHANGED <<variant, format, specFile, dotenvFile, environ,
                   required_vars_with_types, all_available_vars, missing_vars,
                   empty_vars, type_errors, found_count, report_data, stdout,
                   exit_code, tc_value, tc_type, tc_result>>

\* src/envcheck.py: dotenv_vars = load_dotenv_vars(DOTENV_FILE_NAME)
envcheck_LoadDotenv ==
    /\ pc = "spec_loaded" /\ variant = "envcheck"
    /\ accessed' = accessed \cup {"dotenv"}
    /\ LET r == envcheck_load_dotenv_vars(dotenvFile)
       IN  IF r.raised
           THEN /\ stderr' = Append(stderr, "Traceback")
                /\ exit_code' = 1
                /\ pc' = "exited"
                /\ UNCHANGED dotenv_vars
           ELSE /\ dotenv_vars' = r.vars
                /\ pc' = "dotenv_loaded"
                /\ UNCHANGED <<stderr, exit_code>>
    /\ UNCHANGED <<variant, format, specFile, dotenvFile, environ,
                   required_vars_with_types, all_available_vars, missing_vars,
                   empty_vars, type_errors, found_count, report_data, stdout,
                   tc_value, tc_type, tc_result>>

\* Mutant: the merge is written the other way round, the .env file wins.
Resolved_dotenv_wins(dotenv, os_environ) == Merge(os_environ, dotenv)

\* all_available_vars = {**dotenv_vars, **os.environ}
Resolved(dotenv, os_environ) == Merge(dotenv, os_environ)

\* both programs: the merge of the .env mapping and os.environ
Resolve ==
    /\ pc = "dotenv_loaded"
    /\ accessed' = accessed \cup {"environ"}
    /\ all_available_vars' = Resolved(dotenv_vars, environ)
    /\ pc' = "resolved"
    /\ UNCHANGED <<variant, format, specFile, dotenvFile, environ,
                   required_vars_with_types, dotenv_vars, missing_vars,
                   empty_vars, type_errors, found_count, report_data, stdout,
                   stderr, exit_code, tc_value, tc_type, tc_result>>

\* both programs: the loop over the required variables
Validate ==
    /\ pc = "resolved"
    /\ LET acc == Loop(variant, required_vars_with_types, all_available_vars, NoErrors)
       IN  /\ missing_vars' = acc.missing
           /\ empty_vars' = acc.empty
           /\ type_errors' = acc.type_errors
           /\ found_count' = acc.found
    /\ pc' = "validated"
    /\ UNCHANGED <<variant, format, specFile, dotenvFile, environ,
                   required_vars_with_types, dotenv_vars, all_available_vars,
                   report_data, stdout, stderr, exit_code, accessed,
                   tc_value, tc_type, tc_result>>

\* sys.exit(1) if is_failing, else exit code 0
ExitCode(failing) == IF failing THEN 1 ELSE 0

\* both programs: build report_data, print it in the chosen format, exit
Report ==
    /\ pc = "validated"
    /\ LET data == ReportData(required_vars_with_types, missing_vars, empty_vars,
                              type_errors, found_count)
       IN  /\ report_data' = <<data>>
           /\ stdout' = Append(stdout, [format |-> format, data |-> data])
    /\ exit_code' = ExitCode(is_failing(missing_vars, empty_vars, type_errors))
    /\ pc' = "exited"
    /\ UNCHANGED <<variant, format, specFile, dotenvFile, environ,
                   required_vars_with_types, dotenv_vars, all_available_vars,
                   missing_vars, empty_vars, type_errors, found_count, stderr,
                   accessed, tc_value, tc_type, tc_result>>

----------------------------------------------------------------------------
(* The inputs of a run *)

MaxSpecLines == 2

MaxDotenvLines == 2

KA == <<"A">>
KB == <<"B">>

Entry(key, annotation) == key \o <<":", " ">> \o annotation

SpecLines ==
    { Entry(KA, T_string),
      Entry(KA, T_integer),
      Entry(KB, <<"B", "o", "o", "l", "e", "a", "n">>),
      Entry(KB, T_float),
      KB,                                      \* a bare name
      <<"A", ":">>,                            \* a name without a type
      Entry(KB, <<"n", "u", "m", "b", "e", "r">>),
      Entry(KA, <<"5">>),
      <<"#", " ", "c">>,
      <<"-", " ", "A">> }

SeqsUpTo(S, n) == UNION {[1..k -> S] : k \in 0..n}

StringsUpTo(alphabet, n) == SeqsUpTo(alphabet, n)

SpecFiles ==
    { [exists |-> FALSE, readable |-> FALSE, lines |-> <<>>],
      [exists |-> TRUE, readable |-> FALSE, lines |-> <<>>] }
    \cup { [exists |-> TRUE, readable |-> TRUE, lines |-> ls] :
             ls \in SeqsUpTo(SpecLines, MaxSpecLines) }

\* well-formed specifications both programs load: A and B, each of any type
TypedSpecFiles ==
    { [exists |-> TRUE, readable |-> TRUE, lines |-> <<Entry(KA, ta), Entry(KB, tb)>>] :
        ta \in VALID_TYPES, tb \in VALID_TYPES }

NoDotenv == [exists |-> FALSE, fail_at |-> 0, lines |-> <<>>]

DotenvLines ==
    { <<"A", "=", "7">>,
      <<"B", "=", "'", "T", "r", "u", "e", "'">>,
      <<"A", " ", "=">>,
      <<"C">> }

DotenvFiles ==
    {NoDotenv}
    \cup UNION { { [exists |-> TRUE, fail_at |-> k, lines |-> ls] : k \in {0, 1, Len(ls) + 1} } :
                  ls \in SeqsUpTo(DotenvLines, MaxDotenvLines) }

Bind(key, values) == {<<>>} \cup {(key :> value) : value \in values}

Environs ==
    { a @@ b :
        a \in Bind(KA, {<<"8", "0", "0", "0">>, <<"1", ".", "0">>}),
        b \in Bind(KB, {<<>>, <<"0">>}) }

InitRun ==
    /\ variant \in Variants
    /\ \/ /\ specFile \in SpecFiles
          /\ dotenvFile = NoDotenv
          /\ environ \in {<<>>, KA :> <<"8", "0", "0", "0">>}
          /\ format = "text"
       \/ /\ specFile \in TypedSpecFiles
          /\ dotenvFile \in DotenvFiles
          /\ environ \in Environs
          /\ format = "text"
       \/ /\ specFile \in TypedSpecFiles
          /\ dotenvFile = NoDotenv
          /\ environ \in Environs
          /\ format \in VALID_FORMATS
    /\ pc = "start"
    /\ required_vars_with_types = <<>>
    /\ dotenv_vars = <<>>
    /\ all_available_vars = <<>>
    /\ missing_vars = <<>>
    /\ empty_vars = <<>>
    /\ type_errors = <<>>
    /\ found_count = 0
    /\ report_data = <<>>
    /\ stdout = <<>>
    /\ stderr = <<>>
    /\ exit_code = -1
    /\ accessed = {}
    /\ tc_value = <<>>
    /\ tc_type = T_string
    /\ tc_result = <<>>

Init == InitRun

Next ==
    \/ LoadSpec
    \/ envcheck_LoadSpec
    \/ LoadDotenv
    \/ envcheck_LoadDotenv
    \/ Resolve
    \/ Validate
    \/ Report

Spec == Init /\ [][Next]_vars

----------------------------------------------------------------------------
(* load_dotenv_vars on one KEY=VALUE line: the run stands right after the    *)
(* specification "K: string" was loaded, the .env file holds the line        *)
(* "K=" followed by VALUE.                                                   *)

MaxQuotedLen == 3

QuoteAlphabet == {"\"", "'", "a", " "}

KK == <<"K">>

InitDotenv ==
    /\ variant \in Variants
    /\ format = "text"
    /\ specFile = [exists |-> TRUE, readable |-> TRUE, lines |-> <<Entry(KK, T_string)>>]
    /\ \E value \in StringsUpTo(QuoteAlphabet, MaxQuotedLen) :
          dotenvFile = [exists |-> TRUE, fail_at |-> 0, lines |-> <<KK \o <<"=">> \o value>>]
    /\ environ = <<>>
    /\ pc = "spec_loaded"
    /\ required_vars_with_types = <<[key |-> KK, type |-> T_string]>>
    /\ dotenv_vars = <<>>
    /\ all_available_vars = <<>>
    /\ missing_vars = <<>>
    /\ empty_vars = <<>>
    /\ type_errors = <<>>
    /\ found_count = 0
    /\ report_data = <<>>
    /\ stdout = <<>>
    /\ stderr = <<>>
    /\ exit_code = -1
    /\ accessed = {"spec"}
    /\ tc_value = <<>>
    /\ tc_type = T_string
    /\ tc_result = <<>>

NextDotenv == LoadDotenv \/ envcheck_LoadDotenv

SpecDotenv == InitDotenv /\ [][NextDotenv]_vars

----------------------------------------------------------------------------
(* Direct calls of check_value_type, as the unit tests make them *)

MaxValueLen == 3

TypeCheckAlphabet == {"1", ".", " ", "_", "-", "e", "T"}

TypeCheckSamples ==
    { <<"h", "e", "l", "l", "o">>, <<"1", "2", "3">>, <<"3", ".", "1", "4">>,
      <<"T", "r", "u", "e">>, <<"f", "a", "l", "s", "e">>, <<"T", "R", "U", "E">>,
      <<"0">>, <<"a", "b", "c">>, <<"y", "e", "s">>, <<"2">>,
      <<"1", ".", "0">>, <<" ", "t", "r", "u", "e", " ">>, <<"8", "0", "0", "0">>,
      <<"+", "5">>, <<"i", "N", "f">>, <<"1", "e", "+", "5">>, <<"1", "_", "0", "0", "0">>,
      <<" ", "4", "2", "\n">>, <<"F", "a", "l", "s", "e", "\t">> }

TypeCheckValues == StringsUpTo(TypeCheckAlphabet, MaxValueLen) \cup TypeCheckSamples

\* The state of a process that has not entered envsanitycheck()
RunIdle ==
    /\ format = "text"
    /\ specFile = [exists |-> FALSE, readable |-> FALSE, lines |-> <<>>]
    /\ dotenvFile = [exists |-> FALSE, fail_at |-> 0, lines |-> <<>>]
    /\ environ = <<>>
    /\ pc = "start"
    /\ required_vars_with_types = <<>>
    /\ dotenv_vars = <<>>
    /\ all_available_vars = <<>>
    /\ missing_vars = <<>>
    /\ empty_vars = <<>>
    /\ type_errors = <<>>
    /\ found_count = 0
    /\ report_data = <<>>
    /\ stdout = <<>>
    /\ stderr = <<>>
    /\ exit_code = -1
    /\ accessed = {}

InitTypeCheck ==
    /\ variant \in Variants
    /\ RunIdle
    /\ tc_value \in TypeCheckValues
    /\ tc_type \in VALID_TYPES
    /\ tc_result = <<>>

CallCheckValueType ==
    /\ tc_result = <<>>
    /\ tc_result' = <<CheckValueType(variant, <<"K", "E", "Y">>, tc_value, tc_type)>>
    /\ UNCHANGED <<tc_value, tc_type>>
    /\ UNCHANGED runVars

NextTypeCheck == CallCheckValueType

SpecTypeCheck == InitTypeCheck /\ [][NextTypeCheck]_vars

----------------------------------------------------------------------------
(* Claims about check_value_type, checked under SpecTypeCheck *)

Returned == tc_result # <<>>

\* [sign] digit+
IsIntegerLiteral(s) ==
    \E start \in {1, 2} :
        /\ start = 2 => s[1] \in {"+", "-"}
        /\ start <= Len(s)
        /\ \A k \in start..Len(s) : s[k] \in Digits

\* whitespace* [sign] digit+ ("_" digit+)* whitespace*
IsPaddedIntegerLiteral(s) ==
    \E i, j \in DOMAIN s :
        /\ i <= j
        /\ \A k \in DOMAIN s : (k < i \/ k > j) => s[k] \in Whitespace
        /\ LET start == IF s[i] \in {"+", "-"} THEN i + 1 ELSE i
           IN  /\ start <= j
               /\ s[start] \in Digits
               /\ s[j] \in Digits
               /\ \A k \in start..j :
                     \/ s[k] \in Digits
                     \/ s[k] = "_" /\ s[k - 1] \in Digits /\ s[k + 1] \in Digits

DecimalPointRejected ==
    Contains(tc_value, ".") =>
        /\ ~tc_result[1].is_valid
        /\ tc_result[1].message = DecimalPointMessage(tc_value)
        /\ tc_result[1].message # CannotConvertMessage(tc_value, T_integer)

\* C6 as stated: src/cli.py's check_value_type with expected type 'integer'
\* accepts a value iff it is an optional sign followed by decimal digits, and a
\* value containing '.' is rejected with the decimal-point reason, which
\* differs from the cannot-be-converted reason.
C6_AsStated ==
    (Returned /\ variant = "cli" /\ tc_type = T_integer) =>
        /\ tc_result[1].is_valid <=> IsIntegerLiteral(tc_value)
        /\ DecimalPointRejected

\* C6 amended: src/cli.py's check_value_type with expected type 'integer'
\* accepts a value iff, after surrounding whitespace is dropped, it is an
\* optional sign followed by decimal digits in which single underscores may
\* separate digits (what int() parses, minus anything holding a '.'); a value
\* containing '.' is rejected with the decimal-point reason, which differs
\* from the cannot-be-converted reason.
C6_IntegerStrict ==
    (Returned /\ variant = "cli" /\ tc_type = T_integer) =>
        /\ tc_result[1].is_valid <=> IsPaddedIntegerLiteral(tc_value)
        /\ DecimalPointRejected

C6_Witness ==
    /\ Returned /\ variant = "cli" /\ tc_type = T_integer
    /\ tc_value = <<"1", ".", "0">>
    /\ ~tc_result[1].is_valid
    /\ tc_result[1].message = DecimalPointMessage(tc_value)

EqualsIgnoringCase(s, word) ==
    /\ Len(s) = Len(word)
    /\ \A i \in DOMAIN s :
          \/ s[i] = word[i]
          \/ \E k \in DOMAIN UpperCase : UpperCase[k] = s[i] /\ LowerCase[k] = word[i]

IsBooleanSpelling(s) ==
    \/ s \in {<<"1">>, <<"0">>}
    \/ EqualsIgnoringCase(s, <<"t", "r", "u", "e">>)
    \/ EqualsIgnoringCase(s, <<"f", "a", "l", "s", "e">>)

\* C7 as stated: check_value_type with expected type 'boolean' accepts a value
\* iff the value, trimmed of surrounding whitespace and lower-cased, is one of
\* true, false, 1, 0; every other value is rejected with the reason naming the
\* accepted set.
C7_AsStated ==
    (Returned /\ tc_type = T_boolean) =>
        /\ tc_result[1].is_valid <=> Lower(Strip(tc_value)) \in BooleanTokens
        /\ ~tc_result[1].is_valid => tc_result[1].message = NotBooleanMessage(tc_value)

\* C7 amended: check_value_type with expected type 'boolean' accepts a value
\* iff the value itself, untrimmed, is 1, 0 or a spelling of true or false in
\* any letter case; every other value is rejected with the reason naming the
\* accepted set.
C7_BooleanTokens ==
    (Returned /\ tc_type = T_boolean) =>
        /\ tc_result[1].is_valid <=> IsBooleanSpelling(tc_value)
        /\ ~tc_result[1].is_valid => tc_result[1].message = NotBooleanMessage(tc_value)

C7_Witness ==
    /\ Returned /\ tc_type = T_boolean
    /\ tc_value = <<"T", "R", "U", "E">>
    /\ tc_result[1].is_valid

\* C8: over the four recognised types check_value_type returns (True, "") or
\* (False, reason) with a non-empty reason.
C8_ReasonIffRejected ==
    (Returned /\ tc_type \in VALID_TYPES) =>
        /\ tc_result[1].is_valid \in BOOLEAN
        /\ tc_result[1].is_valid <=> IsEmptyMessage(tc_result[1].message)

C8_Witness ==
    /\ Returned /\ tc_type = T_float
    /\ tc_value = <<"a", "b", "c">>
    /\ ~tc_result[1].is_valid
    /\ ~IsEmptyMessage(tc_result[1].message)

----------------------------------------------------------------------------
(* Claims about a run, checked under Spec *)

Reported == report_data # <<>>

Declared == {required_vars_with_types[i].key : i \in DOMAIN required_vars_with_types}

DeclaredNames == [i \in DOMAIN required_vars_with_types |-> required_vars_with_types[i].key]

TypeOf(var) ==
    required_vars_with_types[CHOOSE i \in DOMAIN required_vars_with_types :
                                 required_vars_with_types[i].key = var].type

IsMissing(var) == var \notin DOMAIN all_available_vars

IsEmpty(var) == ~IsMissing(var) /\ all_available_vars[var] = <<>>

IsTypeMismatch(var) ==
    /\ ~IsMissing(var)
    /\ ~IsEmpty(var)
    /\ ~CheckValueType(variant, var, all_available_vars[var], TypeOf(var)).is_valid

IsValid(var) == ~IsMissing(var) /\ ~IsEmpty(var) /\ ~IsTypeMismatch(var)

Range(seq) == {seq[i] : i \in DOMAIN seq}

ErrorKeys(errors) == {errors[i].key : i \in DOMAIN errors}

\* C1: in the report of either program, found_count + len(missing) +
\* len(empty) + len(type_errors) = required_count, and found_count counts
\* only the variables whose value passed the type check.
C1_CountsAddUp ==
    Reported =>
        LET r == report_data[1]
        IN  /\ r.found_count + Len(r.missing) + Len(r.empty) + Len(r.type_errors)
                 = r.required_count
            /\ r.required_count = Cardinality(Declared)
            /\ r.found_count = Cardinality({var \in Declared : IsValid(var)})

\* C2: missing is exactly the absent declared variables in declaration order
\* (so each once), none of them in empty or type_errors; a present variable
\* whose value is the empty string is in empty and in neither missing nor
\* type_errors.
C2_FirstMatchPartition ==
    Reported =>
        LET r == report_data[1]
        IN  /\ r.missing = SelectSeq(DeclaredNames, IsMissing)
            /\ \A var \in Declared :
                  IsMissing(var) =>
                      var \notin Range(r.empty) /\ var \notin ErrorKeys(r.type_errors)
            /\ \A var \in Declared :
                  IsEmpty(var) =>
                      /\ var \in Range(r.empty)
                      /\ var \notin Range(r.missing)
                      /\ var \notin ErrorKeys(r.type_errors)

C2_Witness ==
    /\ Reported
    /\ IsMissing(KA) /\ report_data[1].missing = <<KA>>
    /\ IsEmpty(KB) /\ report_data[1].empty = <<KB>>
    /\ TypeOf(KB) = T_integer

\* C3: the status is FAILURE iff some declared variable is missing, empty or
\* of the wrong type, and SUCCESS otherwise; all_checks_passed is true exactly
\* on SUCCESS; a run that reports ends with exit code 0 on SUCCESS and 1 on
\* FAILURE, and src/cli.py ends with exit code 0 in no other case.
C3_StatusAndExitCode ==
    /\ Reported =>
          LET r == report_data[1]
              failure == \E var \in Declared :
                             IsMissing(var) \/ IsEmpty(var) \/ IsTypeMismatch(var)
          IN  /\ r.status = IF failure THEN "FAILURE" ELSE "SUCCESS"
              /\ r.all_checks_passed <=> r.status = "SUCCESS"
              /\ pc = "exited"
              /\ exit_code = IF r.status = "SUCCESS" THEN 0 ELSE 1
    /\ (variant = "cli" /\ exit_code = 0) => (Reported /\ report_data[1].status = "SUCCESS")

C3_Witness ==
    /\ Reported /\ pc = "exited" /\ exit_code = 1
    /\ report_data[1].status = "FAILURE"
    /\ report_data[1].missing = <<>> /\ report_data[1].empty = <<>>
    /\ Len(report_data[1].type_errors) = 1

\* C4: once the environment is resolved, a key of both sources has the
\* process-environment value, and a key of one source only is kept with that
\* source's value.
C4_EnvironWins ==
    "environ" \in accessed =>
        /\ DOMAIN all_available_vars = DOMAIN dotenv_vars \cup DOMAIN environ
        /\ \A k \in DOMAIN dotenv_vars \cap DOMAIN environ :
              all_available_vars[k] = environ[k]
        /\ \A k \in DOMAIN dotenv_vars \ DOMAIN environ :
              all_available_vars[k] = dotenv_vars[k]
        /\ \A k \in DOMAIN environ \ DOMAIN dotenv_vars :
              all_available_vars[k] = environ[k]

C4_Witness ==
    /\ "environ" \in accessed
    /\ KA \in DOMAIN dotenv_vars /\ KA \in DOMAIN environ
    /\ dotenv_vars[KA] # environ[KA]
    /\ all_available_vars[KA] = environ[KA]
    /\ KB \in DOMAIN dotenv_vars \ DOMAIN environ

\* the defects C5 lists, read off the file as src/cli.py's YAML loader sees it
SpecDefect(file) ==
    \/ ~file.exists
    \/ ~file.readable
    \/ YamlLoad(file.lines).kind # "mapping"
    \/ \E i \in DOMAIN YamlLoad(file.lines).items :
          LET v == YamlLoad(file.lines).items[i].v
          IN  ~YamlIsStr(v) \/ Strip(Lower(v)) \notin VALID_TYPES

\* C5: when the specification cannot be loaded (for src/cli.py: the file is
\* absent, unreadable, not a mapping, or gives a type that is no string or no
\* recognised type), the run ends with exit code 1, having read neither the
\* .env file nor the process environment, and no report is built or printed.
C5_FatalBeforeResolution ==
    ( /\ pc # "start"
      /\ \/ ~LoadSpecification(variant, specFile).ok
         \/ variant = "cli" /\ SpecDefect(specFile) ) =>
        /\ pc = "exited"
        /\ exit_code = 1
        /\ accessed = {"spec"}
        /\ report_data = <<>>
        /\ stdout = <<>>

C5_Witness ==
    /\ variant = "cli"
    /\ specFile.lines = <<Entry(KA, T_string), Entry(KB, <<"n", "u", "m", "b", "e", "r">>)>>
    /\ pc = "exited" /\ exit_code = 1
    /\ accessed = {"spec"} /\ stdout = <<>>

NameChars == {LowerCase[i] : i \in DOMAIN LowerCase}
             \cup {UpperCase[i] : i \in DOMAIN UpperCase} \cup Digits \cup {"_"}

IsBareName(line) ==
    LET t == Strip(line) IN t # <<>> /\ \A i \in DOMAIN t : t[i] \in NameChars

IsTypedEntry(line) ==
    /\ Contains(line, ":")
    /\ IsBareName(Split1(line, ":")[1])
    /\ StartsWith(Split1(line, ":")[2], " ")
    /\ Strip(Lower(Split1(line, ":")[2])) \in VALID_TYPES

NameOf(line) == IF Contains(line, ":") THEN Strip(Split1(line, ":")[1]) ELSE Strip(line)

\* a readable specification of typed entries and bare names, every name once,
\* at least one of them bare
DeclaresBareName(file) ==
    /\ file.exists /\ file.readable
    /\ \A i \in DOMAIN file.lines : IsBareName(file.lines[i]) \/ IsTypedEntry(file.lines[i])
    /\ \E i \in DOMAIN file.lines : IsBareName(file.lines[i])
    /\ \A i, j \in DOMAIN file.lines : i # j => NameOf(file.lines[i]) # NameOf(file.lines[j])

\* C10 as stated: a specification that declares a name without a type is
\* loaded, the name getting the type 'string', and the run goes on to
\* validation instead of ending in a load error.
C10_AsStated ==
    (pc # "start" /\ DeclaresBareName(specFile)) =>
        /\ pc = "exited" => Reported
        /\ \A i \in DOMAIN specFile.lines :
              IsBareName(specFile.lines[i]) =>
                  [key |-> Strip(specFile.lines[i]), type |-> T_string]
                      \in Range(required_vars_with_types)

----------------------------------------------------------------------------
(* Claims about load_dotenv_vars, checked under SpecDotenv *)

RawValue == SubSeq(dotenvFile.lines[1], Len(KK) + 2, Len(dotenvFile.lines[1]))

IsQuote(c) == c \in {"\"", "'"}

\* what the claim lets the stored value be: the trimmed value, without its
\* first and last character when these are the same quote character (a value
\* that is one quote character alone may be read either way)
OneLayerUnquoted(raw) ==
    LET t == Strip(raw)
    IN  IF Len(t) >= 2 /\ t[1] = t[Len(t)] /\ IsQuote(t[1])
        THEN {SubSeq(t, 2, Len(t) - 1)}
        ELSE IF Len(t) = 1 /\ IsQuote(t[1]) THEN {t, <<>>}
        ELSE {t}

\* C9 as stated: the value stored for KEY=VALUE is the trimmed VALUE with
\* exactly one layer of quotes removed, and only when its first and last
\* characters are the same quote character.
C9_AsStated ==
    pc = "dotenv_loaded" =>
        /\ KK \in DOMAIN dotenv_vars
        /\ dotenv_vars[KK] \in OneLayerUnquoted(RawValue)

----------------------------------------------------------------------------
(* Claims about a failing or malformed .env file, checked under Spec *)

DotenvAttempted == "dotenv" \in accessed

DotenvReadFails == dotenvFile.exists /\ dotenvFile.fail_at # 0

HasEquals(line) == Contains(line, "=")

WarningPrinted ==
    \E i \in DOMAIN stderr : stderr[i] = "Warning: Could not parse .env file"

\* C11 as stated: a failure while reading the .env file does not abort the
\* run: a warning is printed, the .env file contributes the empty mapping
\* (nothing parsed before the failure is kept), and validation goes on against
\* the process environment alone; in a file that is read to its end, the lines
\* without '=' are skipped and the mapping is that of the other lines.
C11_AsStated ==
    /\ (DotenvAttempted /\ DotenvReadFails) =>
          /\ WarningPrinted
          /\ dotenv_vars = <<>>
          /\ pc = "exited" => Reported
          /\ "environ" \in accessed => all_available_vars = environ
    /\ (pc = "dotenv_loaded" /\ dotenvFile.exists /\ dotenvFile.fail_at = 0) =>
          dotenv_vars = ReadDotenvLines(SelectSeq(dotenvFile.lines, HasEquals),
                                        <<>>, variant = "envcheck")

====
